---- MODULE Spec2Model ----
(***************************************************************************)
(* Model of qjlxg/back: market_monitor.py (MarketMonitor) and              *)
(* download_index_data.py.                                                 *)
(*                                                                         *)
(* Spec        one instrument (a fund or the benchmark index) going        *)
(*             through read-local, paginated fetch with retry, merge,      *)
(*             save and signal computation.                                *)
(* SpecMerge   the merge expression of _process_single_fund and the        *)
(*             combine step of download_index_data on arbitrary inputs.    *)
(* SpecSignal  the advice/action ladders of _get_latest_signals on         *)
(*             arbitrary snapshots.                                        *)
(* SpecBatch   get_fund_data over several funds and the index.             *)
(* SpecBacktest  the trading loop of _backtest_strategy, one row a step.   *)
(* SpecRank    _get_portfolio_signals over arbitrary fund_data.            *)
(* SpecRsi     the RSI column of _calculate_indicators, one row a step.    *)
(* SpecPages   one attempt of a page loop against an arbitrary remote.      *)
(*                                                                         *)
(* Dates are positive integers (larger = later); net values are integers.  *)
(***************************************************************************)
EXTENDS Integers, Sequences, FiniteSets, TLC

----------------------------------------------------------------------------
(* Bounds of the model *)

\* number of recent dates from which remote and local histories are drawn
MaxNew == 4
\* rows the remote puts on one page (the request asks for per=20)
PerPage == 2
\* length of the optional block of old rows (dates 1..OldLen) of a history
OldLen == 25

----------------------------------------------------------------------------
(* Program constants *)

\* stop=tenacity.stop_after_attempt(5)
MaxAttempts == 5
\* len(df) < 26 in _calculate_indicators
MinDataPoints == 26
\* df.tail(100)
TailRows == 100
\* latest_local_date = None
None == 0
\* 'latest_net_value': "数据获取失败"
NoValue == 0

----------------------------------------------------------------------------
(* Rows and data frames: a frame is a sequence of [date, net_value] rows *)

Row(d) == [date |-> d, net_value |-> 100 + d]

Dates(df) == {df[i].date : i \in 1..Len(df)}

MaxOf(S) == CHOOSE x \in S : \A y \in S : y <= x

\* df['date'].max().date() if not df.empty else None
LatestDate(df) == IF df = <<>> THEN None ELSE MaxOf(Dates(df))

\* position of row i in a stable ascending sort by date
SortPos(df, i) ==
    Cardinality({j \in 1..Len(df) : df[j].date < df[i].date})
    + Cardinality({j \in 1..(i - 1) : df[j].date = df[i].date}) + 1

\* df.sort_values(by='date', ascending=True)
SortValues(df) ==
    [k \in 1..Len(df) |-> df[CHOOSE i \in 1..Len(df) : SortPos(df, i) = k]]

\* the rows of df at the indices I, in their order in df
AtIndices(df, I) ==
    [k \in 1..Cardinality(I) |->
        df[CHOOSE i \in I : Cardinality({j \in I : j < i}) = k - 1]]

\* df.drop_duplicates(subset=['date'], keep='last')
DropDuplicatesLast(df) ==
    AtIndices(df, {i \in 1..Len(df) :
                     \A j \in (i + 1)..Len(df) : df[j].date # df[i].date})

\* df.drop_duplicates(subset=['date'])   (keep='first' is the default)
DropDuplicatesFirst(df) ==
    AtIndices(df, {i \in 1..Len(df) :
                     \A j \in 1..(i - 1) : df[j].date # df[i].date})

\* df.tail(n)
Tail_(df, n) ==
    IF Len(df) <= n THEN df ELSE SubSeq(df, Len(df) - n + 1, Len(df))

\* the merge keeping the fetched rows alone
MergeNewOnly(local, new) == SortValues(DropDuplicatesLast(new))

\* the merge without drop_duplicates, and with keep='first'
MergeNoDedup(local, new) == SortValues(local \o new)
MergeKeepFirst(local, new) == SortValues(DropDuplicatesFirst(local \o new))

\* pd.concat([local_df, new_df]).drop_duplicates(subset=['date'], keep='last')
\*   .sort_values(by='date', ascending=True)
Merge(local, new) == SortValues(DropDuplicatesLast(local \o new))

\* ascending / descending frame of the rows with the dates in S
RECURSIVE AscRows(_)
AscRows(S) ==
    IF S = {} THEN <<>>
    ELSE LET m == MaxOf(S) IN Append(AscRows(S \ {m}), Row(m))

RECURSIVE DescRows(_)
DescRows(S) ==
    IF S = {} THEN <<>>
    ELSE LET m == MaxOf(S) IN <<Row(m)>> \o DescRows(S \ {m})

----------------------------------------------------------------------------
(* The remote paginated source *)

OldDates == 1..OldLen
NewDates == (OldLen + 1)..(OldLen + MaxNew)

\* the histories a remote can serve, newest first; the local files a previous
\* run can have left (ascending, one row per date, written by
\* _save_to_local_file)
DateSets == {O \cup N : O \in {{}, OldDates}, N \in SUBSET NewDates}
Remotes == {DescRows(S) : S \in DateSets}
LocalFiles == {AscRows(S) : S \in DateSets}

Min2(a, b) == IF a <= b THEN a ELSE b

\* the table of page p (page=p&per=...): rows (p-1)*PerPage+1 .. p*PerPage
PageOf(history, p) ==
    SubSeq(history, (p - 1) * PerPage + 1, Min2(p * PerPage, Len(history)))

\* pages:(\d+) of a response
TotalPages(history) == (Len(history) + PerPage - 1) \div PerPage

----------------------------------------------------------------------------
(* State *)

VARIABLES
    kind,               \* "fund": _process_single_fund, "index": _analyze_index
    remote,             \* the remote history, newest first
    local_file,         \* DATA_DIR/<code>.csv
    pc,                 \* position in the pipeline
    local_df,           \* local_df of _process_single_fund / _analyze_index
    latest_local_date,  \* watermark handed to the fetch (None = no watermark)
    attempt_number,     \* tenacity's retry_state.attempt_number
    page_index,         \* page_index of the running attempt
    all_new_data,       \* all_new_data of the running attempt (concatenated)
    has_new_data,       \* has_new_data of the running attempt
    req_log,            \* pages requested by the running attempt, in order
    stop_reason,        \* which break ended the page loop
    new_df,             \* what the fetch returned
    writes,             \* number of _save_to_local_file calls
    handed,             \* the frame handed to _get_latest_signals
    ret,                \* return value of _process_single_fund (<<>> = None)
    fund_data,          \* self.fund_data, a set of result dicts
    index_data,         \* self.index_data (<<>> = {})
    raised_exc,         \* the exception that left the fetch ("" = none)
    abandoned           \* whether a failed attempt had collected rows

fetchVars == <<kind, remote, local_file, pc, local_df, latest_local_date,
               attempt_number, page_index, all_new_data, has_new_data,
               req_log, stop_reason, new_df, writes, handed, ret, fund_data,
               index_data, raised_exc, abandoned>>

VARIABLES
    m_pc,               \* SpecMerge: "input", "merged", "remerged", "combined"
    m_local,            \* local_df
    m_new,              \* new_df / the concatenated pages of the downloader
    m_out,              \* df_final / combined_df
    m_saved,            \* the frame written to the CSV file
    m_handed            \* the frame handed to _get_latest_signals

mergeVars == <<m_pc, m_local, m_new, m_out, m_saved, m_handed>>

VARIABLES
    s_pc,               \* SpecSignal: "input", "classified"
    s_rows,             \* len(df) of the frame given to _get_latest_signals
    s_snap,             \* the latest row of the processed frame
    s_out               \* the advice and action_signal of the returned dict

signalVars == <<s_pc, s_rows, s_snap, s_out>>

VARIABLES
    b_pc,               \* SpecBatch: position of get_fund_data
    b_local,            \* per fund, its local cache: "none", "stale", "fresh"
    b_index_local,      \* the index's local cache: "none" or "some"
    b_next,             \* position of the preload loop in fund_codes
    b_to_fetch,         \* fund_codes_to_fetch
    b_future,           \* per fund, the state of its future
    b_collected,        \* futures already handled by the as_completed loop
    b_fund_data,        \* self.fund_data: fund code -> kind of dict stored
    b_index_data,       \* self.index_data (<<>> = {})
    b_saves             \* per fund, number of _save_to_local_file calls

batchVars == <<b_pc, b_local, b_index_local, b_next, b_to_fetch, b_future,
               b_collected, b_fund_data, b_index_data, b_saves>>

VARIABLES
    bt_pc,              \* SpecBacktest: "start", "loop", "done"
    bt_len,             \* len(df) after dropna and reset_index
    bt_i,               \* i of the trading loop
    bt_row,             \* df.iloc[i - 1], the row before the one the loop reads
    bt_position,        \* position
    bt_buy_price,       \* buy_price
    bt_trades,          \* trades
    bt_returns,         \* returns
    bt_total_trades     \* total_trades of the returned dict

backtestVars == <<bt_pc, bt_len, bt_i, bt_row, bt_position, bt_buy_price,
                  bt_trades, bt_returns, bt_total_trades>>

VARIABLES
    r_pc,               \* SpecRank: "input", "ranked"
    r_fund_data,        \* fund_data, its dicts in the order of items()
    r_max_positions,    \* max_positions
    r_out               \* the list returned by _get_portfolio_signals

rankVars == <<r_pc, r_fund_data, r_max_positions, r_out>>

VARIABLES
    x_pc,               \* SpecRsi: "rows"
    x_i,                \* rows of the frame computed so far
    x_gain,             \* the values of gain inside the rolling window
    x_loss,             \* the values of loss inside the rolling window
    x_avg_loss,         \* avg_loss of the last row computed
    x_rsi               \* df['rsi'] of the last row computed

rsiVars == <<x_pc, x_i, x_gain, x_loss, x_avg_loss, x_rsi>>

VARIABLES
    pg_pc,              \* SpecPages: "loop", "returned", "raised"
    pg_loop,            \* "monitor": _fetch_fund_data / _fetch_index_data,
                        \* "downloader": fetch_and_save_index_data
    pg_W,               \* latest_local_date (None in full-history mode)
    pg_page_index,      \* page_index
    pg_acc,             \* all_new_data / all_index_data, concatenated
    pg_has_new,         \* has_new_data
    pg_log,             \* the pages requested, in order
    pg_rows,            \* per request, the valid rows of the page served
    pg_total,           \* per request, the pages:N the response declared
    pg_stop             \* which break ended the loop

pagesVars == <<pg_pc, pg_loop, pg_W, pg_page_index, pg_acc, pg_has_new,
               pg_log, pg_rows, pg_total, pg_stop>>

\* the variables an action of one specification leaves to the others
exceptFetch == <<mergeVars, signalVars, batchVars, backtestVars, rankVars,
                 rsiVars, pagesVars>>
exceptMerge == <<fetchVars, signalVars, batchVars, backtestVars, rankVars,
                 rsiVars, pagesVars>>
exceptSignal == <<fetchVars, mergeVars, batchVars, backtestVars, rankVars,
                  rsiVars, pagesVars>>
exceptBatch == <<fetchVars, mergeVars, signalVars, backtestVars, rankVars,
                 rsiVars, pagesVars>>
exceptBacktest == <<fetchVars, mergeVars, signalVars, batchVars, rankVars,
                    rsiVars, pagesVars>>
exceptRank == <<fetchVars, mergeVars, signalVars, batchVars, backtestVars,
                rsiVars, pagesVars>>
exceptRsi == <<fetchVars, mergeVars, signalVars, batchVars, backtestVars,
               rankVars, pagesVars>>
exceptPages == <<fetchVars, mergeVars, signalVars, batchVars, backtestVars,
                 rankVars, rsiVars>>

Kinds == {"fund", "index"}

\* the instrument code: a fund code of fund_codes, or self.index_code
Code(k) == IF k = "index" THEN "000300" ELSE "161725"

----------------------------------------------------------------------------
(* _read_local_data *)

\* sorted by date on read; empty frame when the file is absent or empty
ReadLocalData(file) == SortValues(file)

----------------------------------------------------------------------------
(* Signals (the ladders themselves are modelled under SpecSignal) *)

\* the dict returned for missing data or on an exception
Unavailable(code) ==
    [fund_code |-> code, latest_net_value |-> NoValue, action_signal |-> "N/A"]

\* _calculate_indicators returns None below 26 rows; otherwise the signal is
\* classified from the last row
GetLatestSignals(code, df) ==
    IF df = <<>> \/ Len(df) < MinDataPoints
    THEN Unavailable(code)
    ELSE [fund_code |-> code, latest_net_value |-> df[Len(df)].net_value,
          action_signal |-> "classified"]

----------------------------------------------------------------------------
(* _fetch_fund_data / _fetch_index_data: one iteration of the page loop *)

\* the filter with >= in place of >
NewerOrEqual(df_page, W) == SelectSeq(df_page, LAMBDA r : r.date >= W)

\* df_page[df_page['date'].dt.date > latest_local_date]
NewerThan(df_page, W) == SelectSeq(df_page, LAMBDA r : r.date > W)

\* (df_page['date'].dt.date <= latest_local_date).any()
ReachedLocal(df_page, W) == \E i \in 1..Len(df_page) : df_page[i].date <= W

\* the body of the loop after a well-formed response: what is collected and
\* whether (and why) the loop breaks
PageStep(W, p, acc, has_new, df_page, total_pages) ==
    LET new_df_page == NewerThan(df_page, W)
        incremental == W # None
        early == IF incremental /\ new_df_page = <<>>
                 THEN IF has_new THEN "all_new_collected"
                      ELSE IF p = 1 THEN "no_new_first_page" ELSE ""
                 ELSE ""
        acc2 == IF incremental
                THEN IF new_df_page = <<>> THEN acc ELSE acc \o new_df_page
                ELSE acc \o df_page
        has2 == IF incremental /\ new_df_page # <<>> THEN TRUE ELSE has_new
        late == IF incremental /\ ReachedLocal(df_page, W) THEN "reached_local"
                ELSE IF p >= total_pages THEN "all_pages" ELSE ""
    IN  IF early # ""
        THEN [acc |-> acc, has_new |-> has_new, stop |-> early]
        ELSE [acc |-> acc2, has_new |-> has2, stop |-> late]

\* the decorator of _fetch_fund_data retries RequestException and ValueError;
\* _fetch_index_data carries no decorator
Retried(k, exc) ==
    k = "fund" /\ exc \in {"RequestException", "ValueError"}

Exceptions == {"RequestException", "ValueError", "Exception"}

\* the rows of the failed attempt carried into the next one
KeptAccumulator(acc) == acc

\* all_new_data = [] at the head of the function, run again by every attempt
FreshAccumulator(acc) == <<>>

----------------------------------------------------------------------------
(* Spec: one instrument through the synchronisation pipeline *)

FetchIdle ==
    /\ local_df = <<>>
    /\ latest_local_date = None
    /\ attempt_number = 0
    /\ page_index = 0
    /\ all_new_data = <<>>
    /\ has_new_data = FALSE
    /\ req_log = <<>>
    /\ stop_reason = ""
    /\ new_df = <<>>
    /\ writes = 0
    /\ handed = <<>>
    /\ ret = <<>>
    /\ fund_data = {}
    /\ index_data = <<>>
    /\ raised_exc = ""
    /\ abandoned = FALSE

InitFetch ==
    /\ kind \in Kinds
    /\ remote \in Remotes
    /\ local_file \in LocalFiles
    /\ pc = "start"
    /\ FetchIdle

FetchOff ==
    /\ kind = "fund"
    /\ remote = <<>>
    /\ local_file = <<>>
    /\ pc = "off"
    /\ FetchIdle

\* self.fund_data[fund_code] = result
Put(data, rec) == {r \in data : r.fund_code # rec.fund_code} \cup {rec}

\* _process_single_fund / _analyze_index up to the call of the fetch, and the
\* first attempt's entry into the fetch (all_new_data = [], page_index = 1)
ReadLocal ==
    /\ pc = "start"
    /\ local_df' = ReadLocalData(local_file)
    /\ latest_local_date' = LatestDate(local_df')
    /\ attempt_number' = 1
    /\ page_index' = 1
    /\ all_new_data' = <<>>
    /\ has_new_data' = FALSE
    /\ req_log' = <<>>
    /\ pc' = "fetch"
    /\ UNCHANGED <<kind, remote, local_file, stop_reason, new_df, writes,
                   handed, ret, fund_data, index_data>>
    /\ UNCHANGED <<raised_exc, abandoned>>
    /\ UNCHANGED exceptFetch

\* requests.get succeeds and the response carries content and pages
FetchPage ==
    /\ pc = "fetch"
    /\ LET s == PageStep(latest_local_date, page_index, all_new_data,
                         has_new_data, PageOf(remote, page_index),
                         TotalPages(remote))
       IN  /\ req_log' = Append(req_log, page_index)
           /\ all_new_data' = s.acc
           /\ has_new_data' = s.has_new
           /\ IF s.stop = ""
              THEN /\ page_index' = page_index + 1
                   /\ UNCHANGED <<pc, stop_reason, new_df>>
              ELSE /\ stop_reason' = s.stop
                   /\ new_df' = s.acc
                   /\ pc' = "fetched"
                   /\ UNCHANGED page_index
    /\ UNCHANGED <<kind, remote, local_file, local_df, latest_local_date,
                   attempt_number, writes, handed, ret, fund_data, index_data>>
    /\ UNCHANGED <<raised_exc, abandoned>>
    /\ UNCHANGED exceptFetch

\* the response lacks content:"..." or pages:N: the loop breaks and the
\* function returns what the earlier pages gave
FetchPageBadFormat ==
    /\ pc = "fetch"
    /\ req_log' = Append(req_log, page_index)
    /\ stop_reason' = "bad_format"
    /\ new_df' = all_new_data
    /\ pc' = "fetched"
    /\ UNCHANGED <<kind, remote, local_file, local_df, latest_local_date,
                   attempt_number, page_index, all_new_data, has_new_data,
                   writes, handed, ret, fund_data, index_data>>
    /\ UNCHANGED <<raised_exc, abandoned>>
    /\ UNCHANGED exceptFetch

\* requests.get / raise_for_status / pd.read_html raises: the handler
\* re-raises; tenacity calls the function again or gives up
FetchPageRaises ==
    /\ pc = "fetch"
    /\ \E exc \in Exceptions :
         IF Retried(kind, exc) /\ attempt_number < MaxAttempts
         THEN /\ attempt_number' = attempt_number + 1
              /\ page_index' = 1
              /\ all_new_data' = FreshAccumulator(all_new_data)
              /\ has_new_data' = FALSE
              /\ req_log' = <<>>
              /\ abandoned' = (abandoned \/ all_new_data # <<>>)
              /\ UNCHANGED <<pc, raised_exc>>
         ELSE /\ pc' = "raised"
              /\ raised_exc' = exc
              /\ req_log' = Append(req_log, page_index)
              /\ UNCHANGED <<attempt_number, page_index, all_new_data,
                             has_new_data, abandoned>>
    /\ UNCHANGED <<kind, remote, local_file, local_df, latest_local_date,
                   stop_reason, new_df, writes, handed, ret, fund_data,
                   index_data>>
    /\ UNCHANGED exceptFetch

\* the test of new_df dropped
SaveAlways(df) == TRUE

\* if not new_df.empty
HasRows(df) == df # <<>>

\* what the pipeline yields for the instrument: the fund's worker returns
\* it, _analyze_index stores it in self.index_data
Yield(rec) ==
    IF kind = "fund"
    THEN /\ ret' = <<rec>>
         /\ pc' = "returned"
         /\ UNCHANGED index_data
    ELSE /\ index_data' = <<rec>>
         /\ pc' = "done"
         /\ UNCHANGED ret

\* new rows: merge, save, compute the signal from the merged series
MergeAndSave ==
    /\ pc = "fetched"
    /\ HasRows(new_df)
    /\ LET df_final == Merge(local_df, new_df)
       IN  /\ local_file' = df_final
           /\ writes' = writes + 1
           /\ handed' = Tail_(df_final, TailRows)
           /\ Yield(GetLatestSignals(Code(kind), handed'))
    /\ UNCHANGED <<kind, remote, local_df, latest_local_date, attempt_number,
                   page_index, all_new_data, has_new_data, req_log,
                   stop_reason, new_df, fund_data>>
    /\ UNCHANGED <<raised_exc, abandoned>>
    /\ UNCHANGED exceptFetch

\* no new rows, local data exists: compute the signal from the local series
UseLocalData ==
    /\ pc = "fetched"
    /\ ~HasRows(new_df)
    /\ local_df # <<>>
    /\ handed' = Tail_(local_df, TailRows)
    /\ Yield(GetLatestSignals(Code(kind), handed'))
    /\ UNCHANGED <<kind, remote, local_file, local_df, latest_local_date,
                   attempt_number, page_index, all_new_data, has_new_data,
                   req_log, stop_reason, new_df, writes, fund_data>>
    /\ UNCHANGED <<raised_exc, abandoned>>
    /\ UNCHANGED exceptFetch

\* no new rows and no local data: the worker returns None; _analyze_index
\* stores the failure dict
NoDataAtAll ==
    /\ pc = "fetched"
    /\ ~HasRows(new_df)
    /\ local_df = <<>>
    /\ IF kind = "fund"
       THEN /\ ret' = <<>>
            /\ pc' = "returned"
            /\ UNCHANGED index_data
       ELSE /\ index_data' = <<Unavailable(Code(kind))>>
            /\ pc' = "done"
            /\ UNCHANGED ret
    /\ UNCHANGED <<kind, remote, local_file, local_df, latest_local_date,
                   attempt_number, page_index, all_new_data, has_new_data,
                   req_log, stop_reason, new_df, writes, handed, fund_data>>
    /\ UNCHANGED <<raised_exc, abandoned>>
    /\ UNCHANGED exceptFetch

\* get_fund_data: result = future.result(); if result: fund_data[code] = result
CollectResult ==
    /\ pc = "returned"
    /\ fund_data' = IF ret # <<>> THEN Put(fund_data, ret[1]) ELSE fund_data
    /\ pc' = "done"
    /\ UNCHANGED <<kind, remote, local_file, local_df, latest_local_date,
                   attempt_number, page_index, all_new_data, has_new_data,
                   req_log, stop_reason, new_df, writes, handed, ret,
                   index_data>>
    /\ UNCHANGED <<raised_exc, abandoned>>
    /\ UNCHANGED exceptFetch

\* get_fund_data: future.result() raises; the failure dict is stored
CollectException ==
    /\ pc = "raised"
    /\ kind = "fund"
    /\ fund_data' = Put(fund_data, Unavailable(Code(kind)))
    /\ pc' = "done"
    /\ UNCHANGED <<kind, remote, local_file, local_df, latest_local_date,
                   attempt_number, page_index, all_new_data, has_new_data,
                   req_log, stop_reason, new_df, writes, handed, ret,
                   index_data>>
    /\ UNCHANGED <<raised_exc, abandoned>>
    /\ UNCHANGED exceptFetch

\* the exception of _fetch_index_data leaves _analyze_index and get_fund_data
IndexExceptionPropagates ==
    /\ pc = "raised"
    /\ kind = "index"
    /\ pc' = "aborted"
    /\ UNCHANGED <<kind, remote, local_file, local_df, latest_local_date,
                   attempt_number, page_index, all_new_data, has_new_data,
                   req_log, stop_reason, new_df, writes, handed, ret,
                   fund_data, index_data>>
    /\ UNCHANGED <<raised_exc, abandoned>>
    /\ UNCHANGED exceptFetch

NextFetch ==
    \/ ReadLocal
    \/ FetchPage
    \/ FetchPageBadFormat
    \/ FetchPageRaises
    \/ MergeAndSave
    \/ UseLocalData
    \/ NoDataAtAll
    \/ CollectResult
    \/ CollectException
    \/ IndexExceptionPropagates

----------------------------------------------------------------------------
(* SpecMerge: the merge of _process_single_fund / _analyze_index and the
   combine step of download_index_data, on arbitrary frames *)

\* bounds of the frames fed to the merge
MergeDates == 2
MergeLen == 3

MergeRows == [date : 1..MergeDates, net_value : {1, 2}]

RECURSIVE SeqsUpTo(_, _)
SeqsUpTo(S, n) ==
    IF n = 0 THEN {<<>>}
    ELSE LET shorter == SeqsUpTo(S, n - 1)
         IN  shorter \cup {Append(q, x) : q \in {t \in shorter : Len(t) = n - 1},
                                           x \in S}

MergeFrames == SeqsUpTo(MergeRows, MergeLen)

IsAscending(df) == \A i \in 1..(Len(df) - 1) : df[i].date <= df[i + 1].date

InitMerge ==
    /\ m_pc = "input"
    \* _read_local_data returns the file's rows sorted by date
    /\ m_local \in {df \in MergeFrames : IsAscending(df)}
    /\ m_new \in MergeFrames
    /\ m_out = <<>>
    /\ m_saved = <<>>
    /\ m_handed = <<>>

MergeOff ==
    /\ m_pc = "off"
    /\ m_local = <<>>
    /\ m_new = <<>>
    /\ m_out = <<>>
    /\ m_saved = <<>>
    /\ m_handed = <<>>

\* df_final = concat/drop_duplicates/sort_values; _save_to_local_file;
\* _get_latest_signals(df_final.tail(100))
MergeSaveHand ==
    /\ m_pc = "input"
    /\ m_out' = Merge(m_local, m_new)
    /\ m_saved' = m_out'
    /\ m_handed' = Tail_(m_out', TailRows)
    /\ m_pc' = "merged"
    /\ UNCHANGED <<m_local, m_new>>
    /\ UNCHANGED exceptMerge

\* the saved series is read back and merged with itself
MergeAgain ==
    /\ m_pc = "merged"
    /\ m_local' = ReadLocalData(m_saved)
    /\ m_new' = m_local'
    /\ m_out' = Merge(m_local', m_new')
    /\ m_saved' = m_out'
    /\ m_handed' = Tail_(m_out', TailRows)
    /\ m_pc' = "remerged"
    /\ UNCHANGED exceptMerge

\* download_index_data: combined_df = concat(pages).drop_duplicates(
\*   subset=['date']).sort_values(by='date'); combined_df.to_csv
CombineDownloaded ==
    /\ m_pc = "input"
    /\ m_new # <<>>
    /\ m_out' = SortValues(DropDuplicatesFirst(m_new))
    /\ m_saved' = m_out'
    /\ m_pc' = "combined"
    /\ UNCHANGED <<m_local, m_new, m_handed>>
    /\ UNCHANGED exceptMerge

NextMerge ==
    \/ MergeSaveHand
    \/ MergeAgain
    \/ CombineDownloaded

----------------------------------------------------------------------------
(* SpecSignal: the ladders of _get_latest_signals.  RSI is in points,
   ma_ratio, net value and Bollinger bands in hundredths, macd_diff in
   hundredths.  The strings of the source are named as follows:
     advice  "等待回调" wait_for_pullback, "可分批买入" accumulate,
             "观察" observe
     action  "强卖出/规避" strong_sell, "弱卖出/规避" weak_sell,
             "强买入" strong_buy, "弱买入" weak_buy, "持有/观察" hold,
             'N/A' N/A *)

\* np.nan
NaN == -9999

\* np.isnan(x)
IsNaN(x) == x = NaN

\* the advice ladder with its first two rules in the other order
AdviceLadderRule2First(v) ==
    IF \/ (~IsNaN(v.rsi) /\ v.rsi < 30)
       \/ (~IsNaN(v.bb_lower) /\ v.net_value < v.bb_lower)
       \/ (~IsNaN(v.ma_ratio) /\ v.ma_ratio < 80)
    THEN "accumulate"
    ELSE IF \/ (~IsNaN(v.rsi) /\ v.rsi > 70)
            \/ (~IsNaN(v.bb_upper) /\ v.net_value > v.bb_upper)
            \/ (~IsNaN(v.ma_ratio) /\ v.ma_ratio > 120)
    THEN "wait_for_pullback"
    ELSE IF /\ (~IsNaN(v.ma_ratio) /\ v.ma_ratio > 100)
            /\ (~IsNaN(v.macd_diff) /\ v.macd_diff > 0)
    THEN "accumulate"
    ELSE IF /\ (~IsNaN(v.ma_ratio) /\ v.ma_ratio < 100)
            /\ (~IsNaN(v.macd_diff) /\ v.macd_diff < 0)
    THEN "wait_for_pullback"
    ELSE "observe"

\* advice ladder of _get_latest_signals
AdviceLadder(v) ==
    IF \/ (~IsNaN(v.rsi) /\ v.rsi > 70)
       \/ (~IsNaN(v.bb_upper) /\ v.net_value > v.bb_upper)
       \/ (~IsNaN(v.ma_ratio) /\ v.ma_ratio > 120)
    THEN "wait_for_pullback"
    ELSE IF \/ (~IsNaN(v.rsi) /\ v.rsi < 30)
            \/ (~IsNaN(v.bb_lower) /\ v.net_value < v.bb_lower)
            \/ (~IsNaN(v.ma_ratio) /\ v.ma_ratio < 80)
    THEN "accumulate"
    ELSE IF /\ (~IsNaN(v.ma_ratio) /\ v.ma_ratio > 100)
            /\ (~IsNaN(v.macd_diff) /\ v.macd_diff > 0)
    THEN "accumulate"
    ELSE IF /\ (~IsNaN(v.ma_ratio) /\ v.ma_ratio < 100)
            /\ (~IsNaN(v.macd_diff) /\ v.macd_diff < 0)
    THEN "wait_for_pullback"
    ELSE "observe"

\* the action ladder with the ma_ratio < 0.95 rule tried after the sell rules
ActionLadderLateRule1(v) ==
    IF /\ (~IsNaN(v.rsi) /\ v.rsi > 70)
       /\ (~IsNaN(v.ma_ratio) /\ v.ma_ratio > 120)
       /\ (~IsNaN(v.macd_diff) /\ v.macd_diff < 0)
    THEN "strong_sell"
    ELSE IF \/ (~IsNaN(v.rsi) /\ v.rsi > 65)
            \/ (~IsNaN(v.bb_upper) /\ v.net_value > v.bb_upper)
            \/ (~IsNaN(v.ma_ratio) /\ v.ma_ratio > 120)
    THEN "weak_sell"
    ELSE IF ~IsNaN(v.ma_ratio) /\ v.ma_ratio < 95
    THEN "strong_sell"
    ELSE IF /\ (~IsNaN(v.rsi) /\ v.rsi < 35)
            /\ (~IsNaN(v.ma_ratio) /\ v.ma_ratio < 90)
            /\ (~IsNaN(v.macd_diff) /\ v.macd_diff > 0)
    THEN "strong_buy"
    ELSE IF \/ (~IsNaN(v.rsi) /\ v.rsi < 45)
            \/ (~IsNaN(v.bb_lower) /\ v.net_value < v.bb_lower)
            \/ (~IsNaN(v.ma_ratio) /\ v.ma_ratio < 100)
    THEN "weak_buy"
    ELSE "hold"

\* the action ladder trying its weak_buy rule before its weak_sell rule
ActionLadderBuyBeforeSell(v) ==
    IF ~IsNaN(v.ma_ratio) /\ v.ma_ratio < 95
    THEN "strong_sell"
    ELSE IF /\ (~IsNaN(v.rsi) /\ v.rsi > 70)
            /\ (~IsNaN(v.ma_ratio) /\ v.ma_ratio > 120)
            /\ (~IsNaN(v.macd_diff) /\ v.macd_diff < 0)
    THEN "strong_sell"
    ELSE IF \/ (~IsNaN(v.rsi) /\ v.rsi < 45)
            \/ (~IsNaN(v.bb_lower) /\ v.net_value < v.bb_lower)
            \/ (~IsNaN(v.ma_ratio) /\ v.ma_ratio < 100)
    THEN "weak_buy"
    ELSE IF \/ (~IsNaN(v.rsi) /\ v.rsi > 65)
            \/ (~IsNaN(v.bb_upper) /\ v.net_value > v.bb_upper)
            \/ (~IsNaN(v.ma_ratio) /\ v.ma_ratio > 120)
    THEN "weak_sell"
    ELSE IF /\ (~IsNaN(v.rsi) /\ v.rsi < 35)
            /\ (~IsNaN(v.ma_ratio) /\ v.ma_ratio < 90)
            /\ (~IsNaN(v.macd_diff) /\ v.macd_diff > 0)
    THEN "strong_buy"
    ELSE "hold"

\* the action ladder comparing without the isnan guards
ActionLadderUnguarded(v) ==
    IF v.ma_ratio < 95
    THEN "strong_sell"
    ELSE IF v.rsi > 70 /\ v.ma_ratio > 120 /\ v.macd_diff < 0
    THEN "strong_sell"
    ELSE IF v.rsi > 65 \/ v.net_value > v.bb_upper \/ v.ma_ratio > 120
    THEN "weak_sell"
    ELSE IF v.rsi < 35 /\ v.ma_ratio < 90 /\ v.macd_diff > 0
    THEN "strong_buy"
    ELSE IF v.rsi < 45 \/ v.net_value < v.bb_lower \/ v.ma_ratio < 100
    THEN "weak_buy"
    ELSE "hold"

\* the action ladder without its first rule
ActionLadderWithoutRule1(v) ==
    IF /\ (~IsNaN(v.rsi) /\ v.rsi > 70)
       /\ (~IsNaN(v.ma_ratio) /\ v.ma_ratio > 120)
       /\ (~IsNaN(v.macd_diff) /\ v.macd_diff < 0)
    THEN "strong_sell"
    ELSE IF \/ (~IsNaN(v.rsi) /\ v.rsi > 65)
            \/ (~IsNaN(v.bb_upper) /\ v.net_value > v.bb_upper)
            \/ (~IsNaN(v.ma_ratio) /\ v.ma_ratio > 120)
    THEN "weak_sell"
    ELSE IF /\ (~IsNaN(v.rsi) /\ v.rsi < 35)
            /\ (~IsNaN(v.ma_ratio) /\ v.ma_ratio < 90)
            /\ (~IsNaN(v.macd_diff) /\ v.macd_diff > 0)
    THEN "strong_buy"
    ELSE IF \/ (~IsNaN(v.rsi) /\ v.rsi < 45)
            \/ (~IsNaN(v.bb_lower) /\ v.net_value < v.bb_lower)
            \/ (~IsNaN(v.ma_ratio) /\ v.ma_ratio < 100)
    THEN "weak_buy"
    ELSE "hold"

\* action ladder of _get_latest_signals
ActionLadder(v) ==
    IF ~IsNaN(v.ma_ratio) /\ v.ma_ratio < 95
    THEN "strong_sell"
    ELSE IF /\ (~IsNaN(v.rsi) /\ v.rsi > 70)
            /\ (~IsNaN(v.ma_ratio) /\ v.ma_ratio > 120)
            /\ (~IsNaN(v.macd_diff) /\ v.macd_diff < 0)
    THEN "strong_sell"
    ELSE IF \/ (~IsNaN(v.rsi) /\ v.rsi > 65)
            \/ (~IsNaN(v.bb_upper) /\ v.net_value > v.bb_upper)
            \/ (~IsNaN(v.ma_ratio) /\ v.ma_ratio > 120)
    THEN "weak_sell"
    ELSE IF /\ (~IsNaN(v.rsi) /\ v.rsi < 35)
            /\ (~IsNaN(v.ma_ratio) /\ v.ma_ratio < 90)
            /\ (~IsNaN(v.macd_diff) /\ v.macd_diff > 0)
    THEN "strong_buy"
    ELSE IF \/ (~IsNaN(v.rsi) /\ v.rsi < 45)
            \/ (~IsNaN(v.bb_lower) /\ v.net_value < v.bb_lower)
            \/ (~IsNaN(v.ma_ratio) /\ v.ma_ratio < 100)
    THEN "weak_buy"
    ELSE "hold"

\* the snapshot fields of the dict returned when processed_df is None
NoSnapshot ==
    [net_value |-> NaN, rsi |-> NaN, ma_ratio |-> NaN, macd_diff |-> NaN,
     bb_upper |-> NaN, bb_lower |-> NaN]

\* the ladders applied whatever the number of rows
LatestSignalsNoMinimum(rows, v) ==
    [advice |-> AdviceLadder(v), action_signal |-> ActionLadder(v)]

\* _get_latest_signals: advice and action_signal of the returned dict
LatestSignals(rows, v) ==
    IF rows < MinDataPoints
    THEN [advice |-> "observe", action_signal |-> "N/A"]
    ELSE [advice |-> AdviceLadder(v), action_signal |-> ActionLadder(v)]

RsiValues == {NaN, 20, 29, 32, 40, 50, 68, 75}
MaRatioValues == {NaN, 75, 85, 92, 94, 95, 97, 100, 110, 121, 125}
MacdDiffValues == {NaN, -1, 0, 1}
\* bands around a net value of 100: none, value inside, above, below
BandValues == {<<NaN, NaN>>, <<110, 90>>, <<95, 85>>, <<115, 105>>}
RowCounts == {10, 25, 26, 100}

Snapshots ==
    {[net_value |-> 100, rsi |-> r, ma_ratio |-> m, macd_diff |-> c,
      bb_upper |-> b[1], bb_lower |-> b[2]] :
        r \in RsiValues, m \in MaRatioValues, c \in MacdDiffValues,
        b \in BandValues}

InitSignal ==
    /\ s_pc = "input"
    /\ s_rows \in RowCounts
    /\ s_snap \in IF s_rows < MinDataPoints THEN {NoSnapshot} ELSE Snapshots
    /\ s_out = [advice |-> "", action_signal |-> ""]

SignalOff ==
    /\ s_pc = "off"
    /\ s_rows = 0
    /\ s_snap = NoSnapshot
    /\ s_out = [advice |-> "", action_signal |-> ""]

GetSignals ==
    /\ s_pc = "input"
    /\ s_out' = LatestSignals(s_rows, s_snap)
    /\ s_pc' = "classified"
    /\ UNCHANGED <<s_rows, s_snap>>
    /\ UNCHANGED exceptSignal

NextSignal == GetSignals

----------------------------------------------------------------------------
(* SpecBatch: get_fund_data over the funds of fund_codes and the index.
   A worker's fetch is summarised by its outcome: it returns new rows,
   returns no rows, or raises (retries exhausted or an error not retried).
   A stored dict is "signals" (built by _get_latest_signals) or "failure"
   (the literal failure dict). *)

\* number of funds in fund_codes (the report gives at most 10)
NumFunds == 2

FundCodes == 1..NumFunds

FetchOutcomes == {"rows", "empty", "raises"}

InitBatch ==
    /\ b_pc = "preload"
    /\ b_local \in [FundCodes -> {"none", "stale", "fresh"}]
    /\ b_index_local \in {"none", "some"}
    /\ b_next = 1
    /\ b_to_fetch = {}
    /\ b_future = [c \in FundCodes |-> "unsubmitted"]
    /\ b_collected = {}
    /\ b_fund_data = <<>>
    /\ b_index_data = <<>>
    /\ b_saves = [c \in FundCodes |-> 0]

BatchOff ==
    /\ b_pc = "off"
    /\ b_local = <<>>
    /\ b_index_local = "none"
    /\ b_next = 0
    /\ b_to_fetch = {}
    /\ b_future = <<>>
    /\ b_collected = {}
    /\ b_fund_data = <<>>
    /\ b_index_data = <<>>
    /\ b_saves = <<>>

\* self.fund_data[fund_code] = value
Store(data, c, value) ==
    [x \in DOMAIN data \cup {c} |-> IF x = c THEN value ELSE data[x]]

\* the preload loop without its continue
QueuedAlways(fresh) == TRUE

\* the continue after a direct load skips fund_codes_to_fetch.append
Queued(fresh) == ~fresh

\* one iteration of the preload loop: a fresh and long enough local series
\* is loaded directly, any other fund is queued for fetching
Preload ==
    /\ b_pc = "preload"
    /\ b_next <= NumFunds
    /\ LET fresh == b_local[b_next] = "fresh"
       IN  /\ b_fund_data' = IF fresh
                             THEN Store(b_fund_data, b_next, "signals")
                             ELSE b_fund_data
           /\ b_to_fetch' = IF Queued(fresh)
                            THEN b_to_fetch \cup {b_next}
                            ELSE b_to_fetch
    /\ b_next' = b_next + 1
    /\ UNCHANGED <<b_pc, b_local, b_index_local, b_future, b_collected,
                   b_index_data, b_saves>>
    /\ UNCHANGED exceptBatch

\* executor.submit(self._process_single_fund, code) for code in
\* fund_codes_to_fetch
SubmitAll ==
    /\ b_pc = "preload"
    /\ b_next > NumFunds
    /\ b_future' = [c \in FundCodes |->
                      IF c \in b_to_fetch THEN "pending" ELSE b_future[c]]
    /\ b_pc' = "pool"
    /\ UNCHANGED <<b_local, b_index_local, b_next, b_to_fetch, b_collected,
                   b_fund_data, b_index_data, b_saves>>
    /\ UNCHANGED exceptBatch

\* a pool worker runs _process_single_fund(c) to its end
WorkerRun(c) ==
    /\ b_pc = "pool"
    /\ b_future[c] = "pending"
    /\ \E outcome \in FetchOutcomes :
         /\ b_future' =
              [b_future EXCEPT ![c] =
                 IF outcome = "raises" THEN "exception"
                 ELSE IF outcome = "rows" \/ b_local[c] # "none"
                      THEN "result" ELSE "returned_none"]
         /\ b_saves' =
              [b_saves EXCEPT ![c] = IF outcome = "rows" THEN @ + 1 ELSE @]
    /\ UNCHANGED <<b_pc, b_local, b_index_local, b_next, b_to_fetch,
                   b_collected, b_fund_data, b_index_data>>
    /\ UNCHANGED exceptBatch

\* one iteration of the as_completed loop
Collect(c) ==
    /\ b_pc = "pool"
    /\ c \notin b_collected
    /\ b_future[c] \in {"result", "returned_none", "exception"}
    /\ b_fund_data' =
         IF b_future[c] = "result" THEN Store(b_fund_data, c, "signals")
         ELSE IF b_future[c] = "exception"
              THEN Store(b_fund_data, c, "failure")
              ELSE b_fund_data
    /\ b_collected' = b_collected \cup {c}
    /\ UNCHANGED <<b_pc, b_local, b_index_local, b_next, b_to_fetch,
                   b_future, b_index_data, b_saves>>
    /\ UNCHANGED exceptBatch

\* self._analyze_index() at the end of get_fund_data: _fetch_index_data is
\* not retried and its exception is not caught
AnalyzeIndex ==
    /\ b_pc = "pool"
    /\ b_collected = b_to_fetch
    /\ \E outcome \in FetchOutcomes :
         IF outcome = "raises"
         THEN /\ b_pc' = "aborted"
              /\ UNCHANGED b_index_data
         ELSE /\ b_index_data' =
                   IF outcome = "rows" \/ b_index_local # "none"
                   THEN <<"signals">> ELSE <<"failure">>
              /\ b_pc' = "completed"
    /\ UNCHANGED <<b_local, b_index_local, b_next, b_to_fetch, b_future,
                   b_collected, b_fund_data, b_saves>>
    /\ UNCHANGED exceptBatch

NextBatch ==
    \/ Preload
    \/ SubmitAll
    \/ \E c \in FundCodes : WorkerRun(c)
    \/ \E c \in FundCodes : Collect(c)
    \/ AnalyzeIndex

----------------------------------------------------------------------------
(* SpecBacktest: the trading loop of _backtest_strategy over the frame left
   by _calculate_indicators, dropna and reset_index. The rows of the frame
   are drawn one per iteration; dates are the row positions. *)

\* longest frame
BtMaxLen == 5

\* a key a trade dict does not have
NoField == -9998
NoType == ""

\* net values of the rows
BtValues == {80, 100, 120}

\* <<rsi, ma_ratio, macd_diff>> of the rows (dropna leaves no missing value)
BtIndicators ==
    { <<40, 97, -1>>, <<40, 97, 1>>, <<50, 100, 1>>, <<68, 105, -1>>,
      <<50, 92, -1>>, <<20, 85, 1>>, <<75, 125, -1>> }

\* distance of the Bollinger bands from the net value
BtBand == 15

\* the rows df.iloc[i] can be
DayRows(i) ==
    { [date |-> i, net_value |-> v, rsi |-> x[1], ma_ratio |-> x[2],
       macd_diff |-> x[3], bb_upper |-> v + BtBand, bb_lower |-> v - BtBand] :
        v \in BtValues, x \in BtIndicators }

\* (sell_price - buy_price) / buy_price, in thousandths, rounded down
Ret(sell_price, buy_price) == ((sell_price - buy_price) * 1000) \div buy_price

\* a stop-loss threshold of 20 %
StopLossHitAt80(net_value, buy_price) == net_value * 100 < 80 * buy_price

\* (latest_net_value / buy_price) < 0.90
StopLossHit(net_value, buy_price) == net_value * 100 < 90 * buy_price

\* entering on every signal that is not a sell signal
IsBuyOrHold(action_signal) ==
    action_signal \in {"strong_buy", "weak_buy", "hold"}

IsBuy(action_signal) == action_signal \in {"strong_buy", "weak_buy"}

IsSell(action_signal) == action_signal \in {"strong_sell", "weak_sell"}

\* the dict appended on entry
EntryRecord(d) ==
    [buy_date |-> d.date, buy_price |-> d.net_value, sell_date |-> NoField,
     sell_price |-> NoField, return |-> NoField, type |-> NoType]

\* the dict appended by the stop-loss
StopLossRecord(prev, d, buy_price) ==
    [buy_date |-> prev.date, buy_price |-> NoField, sell_date |-> d.date,
     sell_price |-> NoField, return |-> Ret(d.net_value, buy_price),
     type |-> "stop_loss"]

\* a sale that records nothing
LeaveLastOpen(trades, d, buy_price) == trades

\* trades[-1] given its sell_date, sell_price and return
CloseLast(trades, d, buy_price) ==
    [trades EXCEPT ![Len(trades)] =
        [@ EXCEPT !.sell_date = d.date, !.sell_price = d.net_value,
                  !.return = Ret(d.net_value, buy_price)]]

\* [trade['return'] for trade in trades if 'return' in trade]
RECURSIVE Returns(_)
Returns(trades) ==
    IF trades = <<>> THEN <<>>
    ELSE IF Head(trades).return # NoField
         THEN <<Head(trades).return>> \o Returns(Tail(trades))
         ELSE Returns(Tail(trades))

InitBacktest ==
    /\ bt_pc = "start"
    /\ bt_len \in 1..BtMaxLen
    /\ bt_i = 0
    /\ bt_row \in DayRows(0)
    /\ bt_position = 0
    /\ bt_buy_price = 0
    /\ bt_trades = <<>>
    /\ bt_returns = <<>>
    /\ bt_total_trades = 0

BacktestOff ==
    /\ bt_pc = "off"
    /\ bt_len = 0
    /\ bt_i = 0
    /\ bt_row = [date |-> 0, net_value |-> NaN, rsi |-> NaN, ma_ratio |-> NaN,
                 macd_diff |-> NaN, bb_upper |-> NaN, bb_lower |-> NaN]
    /\ bt_position = 0
    /\ bt_buy_price = 0
    /\ bt_trades = <<>>
    /\ bt_returns = <<>>
    /\ bt_total_trades = 0

\* fewer than two rows after dropna: the result with total_trades 0
BtInsufficient ==
    /\ bt_pc = "start"
    /\ bt_len < 2
    /\ bt_pc' = "done"
    /\ bt_total_trades' = 0
    /\ UNCHANGED <<bt_len, bt_i, bt_row, bt_position, bt_buy_price,
                   bt_trades, bt_returns>>
    /\ UNCHANGED exceptBacktest

\* position = 0, buy_price = 0, trades = [] and the loop starts at i = 1
BtStart ==
    /\ bt_pc = "start"
    /\ bt_len >= 2
    /\ bt_pc' = "loop"
    /\ bt_i' = 1
    /\ bt_position' = 0
    /\ bt_buy_price' = 0
    /\ bt_trades' = <<>>
    /\ UNCHANGED <<bt_len, bt_row, bt_returns, bt_total_trades>>
    /\ UNCHANGED exceptBacktest

\* an iteration taking the stop-loss branch
BtStopLoss ==
    /\ bt_pc = "loop"
    /\ bt_i < bt_len
    /\ \E d \in DayRows(bt_i) :
        /\ bt_position = 1
        /\ StopLossHit(d.net_value, bt_buy_price)
        /\ bt_trades' = Append(bt_trades, StopLossRecord(bt_row, d, bt_buy_price))
        /\ bt_position' = 0
        /\ bt_buy_price' = 0
        /\ bt_row' = d
    /\ bt_i' = bt_i + 1
    /\ UNCHANGED <<bt_pc, bt_len, bt_returns, bt_total_trades>>
    /\ UNCHANGED exceptBacktest

\* an iteration that buys
BtEnter ==
    /\ bt_pc = "loop"
    /\ bt_i < bt_len
    /\ \E d \in DayRows(bt_i) :
        /\ ~(bt_position = 1 /\ StopLossHit(d.net_value, bt_buy_price))
        /\ IsBuy(ActionLadder(d))
        /\ bt_position = 0
        /\ bt_position' = 1
        /\ bt_buy_price' = d.net_value
        /\ bt_trades' = Append(bt_trades, EntryRecord(d))
        /\ bt_row' = d
    /\ bt_i' = bt_i + 1
    /\ UNCHANGED <<bt_pc, bt_len, bt_returns, bt_total_trades>>
    /\ UNCHANGED exceptBacktest

\* an iteration that sells on a signal
BtExit ==
    /\ bt_pc = "loop"
    /\ bt_i < bt_len
    /\ \E d \in DayRows(bt_i) :
        /\ ~(bt_position = 1 /\ StopLossHit(d.net_value, bt_buy_price))
        /\ ~(IsBuy(ActionLadder(d)) /\ bt_position = 0)
        /\ IsSell(ActionLadder(d))
        /\ bt_position = 1
        /\ bt_trades' = CloseLast(bt_trades, d, bt_buy_price)
        /\ bt_position' = 0
        /\ bt_row' = d
    /\ bt_i' = bt_i + 1
    /\ UNCHANGED <<bt_pc, bt_len, bt_buy_price, bt_returns, bt_total_trades>>
    /\ UNCHANGED exceptBacktest

\* an iteration that neither buys nor sells
BtNoTrade ==
    /\ bt_pc = "loop"
    /\ bt_i < bt_len
    /\ \E d \in DayRows(bt_i) :
        /\ ~(bt_position = 1 /\ StopLossHit(d.net_value, bt_buy_price))
        /\ ~(IsBuy(ActionLadder(d)) /\ bt_position = 0)
        /\ ~(IsSell(ActionLadder(d)) /\ bt_position = 1)
        /\ bt_row' = d
    /\ bt_i' = bt_i + 1
    /\ UNCHANGED <<bt_pc, bt_len, bt_position, bt_buy_price, bt_trades,
                   bt_returns, bt_total_trades>>
    /\ UNCHANGED exceptBacktest

\* after the loop: the sale at df.iloc[-1] if still holding, then the figures
BtFinish ==
    /\ bt_pc = "loop"
    /\ bt_i = bt_len
    /\ bt_trades' = IF bt_position = 1
                    THEN CloseLast(bt_trades, bt_row, bt_buy_price)
                    ELSE bt_trades
    /\ bt_returns' = Returns(bt_trades')
    /\ bt_total_trades' = Len(bt_trades')
    /\ bt_pc' = "done"
    /\ UNCHANGED <<bt_len, bt_i, bt_row, bt_position, bt_buy_price>>
    /\ UNCHANGED exceptBacktest

NextBacktest ==
    \/ BtInsufficient
    \/ BtStart
    \/ BtStopLoss
    \/ BtEnter
    \/ BtExit
    \/ BtNoTrade
    \/ BtFinish

----------------------------------------------------------------------------
(* SpecRank: _get_portfolio_signals over a fund_data whose dicts come from
   _get_latest_signals.  The fund code of a dict is its position in
   fund_data. *)

\* most funds in fund_data
RankFunds == 3

\* bb_position of the dict returned by _get_latest_signals
BbPosition(v) ==
    IF ~IsNaN(v.net_value) /\ ~IsNaN(v.bb_upper) /\ v.net_value > v.bb_upper
    THEN "above_upper"
    ELSE IF ~IsNaN(v.net_value) /\ ~IsNaN(v.bb_lower)
              /\ v.net_value < v.bb_lower
    THEN "below_lower"
    ELSE "middle"

\* the fields of the dict of _get_latest_signals that the ranker reads
SignalDict(rows, v) ==
    IF rows < MinDataPoints
    THEN [rsi |-> NaN, ma_ratio |-> NaN, macd_diff |-> NaN,
          bb_position |-> "N/A", action_signal |-> "N/A"]
    ELSE [rsi |-> v.rsi, ma_ratio |-> v.ma_ratio, macd_diff |-> v.macd_diff,
          bb_position |-> BbPosition(v),
          action_signal |-> LatestSignals(rows, v).action_signal]

\* <<rsi, ma_ratio, macd_diff, bb_upper, bb_lower>> of the latest rows
\* (net value 100)
RankIndicators ==
    { <<40, 97, 1, 110, 90>>, <<32, 97, 1, 110, 90>>, <<29, 97, -1, 110, 90>>,
      <<40, 100, 1, 115, 105>>, <<50, 100, 1, 110, 90>>,
      <<68, 100, 1, 110, 90>>, <<20, 85, 1, 110, 90>> }

\* the dicts fund_data can hold: classified ones and the unavailable one
RankDicts ==
    { SignalDict(TailRows,
                 [net_value |-> 100, rsi |-> x[1], ma_ratio |-> x[2],
                  macd_diff |-> x[3], bb_upper |-> x[4], bb_lower |-> x[5]]) :
        x \in RankIndicators }
    \cup {SignalDict(0, NoSnapshot)}

\* _calculate_buy_score
CalculateBuyScore(data) ==
    (IF IsNaN(data.rsi) THEN 0
     ELSE IF data.rsi < 30 THEN 40
     ELSE IF data.rsi < 45 THEN 30
     ELSE 10)
    + (IF IsNaN(data.ma_ratio) THEN 0
       ELSE IF data.ma_ratio < 90 THEN 30
       ELSE IF data.ma_ratio < 100 THEN 20
       ELSE 5)
    + (IF IsNaN(data.macd_diff) THEN 0
       ELSE IF data.macd_diff > 0 THEN 10
       ELSE IF data.macd_diff < 0 THEN 5
       ELSE 0)
    + (IF data.bb_position = "below_lower" THEN 25
       ELSE IF data.bb_position = "middle" THEN 15
       ELSE 5)

\* every dict that is not a sell signal taken as a candidate
IsNotSellCandidate(data) ==
    data.action_signal \notin {"strong_sell", "weak_sell"}

\* data['action_signal'] in ["强买入", "弱买入"]
IsBuyCandidate(data) == data.action_signal \in {"strong_buy", "weak_buy"}

\* the dict appended to buy_candidates
Candidate(code, data) ==
    [code |-> code, signal |-> data.action_signal, rsi |-> data.rsi,
     ma_ratio |-> data.ma_ratio, score |-> CalculateBuyScore(data)]

\* buy_candidates after the loop over fund_data.items()
RECURSIVE BuyCandidates(_, _)
BuyCandidates(items, code) ==
    IF code > Len(items) THEN <<>>
    ELSE (IF IsBuyCandidate(items[code])
          THEN <<Candidate(code, items[code])>> ELSE <<>>)
         \o BuyCandidates(items, code + 1)

\* the place list.sort gives element i: the sort is stable, and with
\* reverse=True equal keys keep their order
ScorePos(cands, i) ==
    Cardinality({j \in 1..Len(cands) :
                   \/ cands[j].score > cands[i].score
                   \/ (cands[j].score = cands[i].score /\ j <= i)})

\* the sort with reverse=False
SortByScoreAscending(cands) ==
    [k \in 1..Len(cands) |->
        cands[CHOOSE i \in 1..Len(cands) :
                Cardinality({j \in 1..Len(cands) :
                    \/ cands[j].score < cands[i].score
                    \/ (cands[j].score = cands[i].score /\ j <= i)}) = k]]

\* buy_candidates.sort(key=lambda x: x['score'], reverse=True)
SortByScore(cands) ==
    [k \in 1..Len(cands) |->
        cands[CHOOSE i \in 1..Len(cands) : ScorePos(cands, i) = k]]

\* buy_candidates[:max_positions]
Slice(cands, n) == SubSeq(cands, 1, Min2(n, Len(cands)))

InitRank ==
    /\ r_pc = "input"
    /\ r_fund_data \in SeqsUpTo(RankDicts, RankFunds)
    /\ r_fund_data # <<>>
    /\ r_max_positions \in 1..RankFunds
    /\ r_out = <<>>

RankOff ==
    /\ r_pc = "off"
    /\ r_fund_data = <<>>
    /\ r_max_positions = 0
    /\ r_out = <<>>

\* _get_portfolio_signals(fund_data, max_positions)
GetPortfolioSignals ==
    /\ r_pc = "input"
    /\ r_out' = Slice(SortByScore(BuyCandidates(r_fund_data, 1)),
                      r_max_positions)
    /\ r_pc' = "ranked"
    /\ UNCHANGED <<r_fund_data, r_max_positions>>
    /\ UNCHANGED exceptRank

NextRank == GetPortfolioSignals

----------------------------------------------------------------------------
(* SpecRsi: the RSI column of _calculate_indicators, one row a step, in exact
   arithmetic.  A float is a record: a quotient num/den (den > 0), nan or
   inf.  The frame has at least MinDataPoints rows, of which the first
   RsiRows are drawn. *)

\* rows drawn
RsiRows == 16

\* rolling(window=14, min_periods=1)
RsiWindow == 14

\* net_value.diff() of the rows after the first
Deltas == {-1, 2}

Quot(n, d) == [kind |-> "num", num |-> n, den |-> d]
NanF == [kind |-> "nan", num |-> 0, den |-> 1]
InfF == [kind |-> "inf", num |-> 0, den |-> 1]

RECURSIVE SumSeq(_)
SumSeq(q) == IF q = <<>> THEN 0 ELSE Head(q) + SumSeq(Tail(q))

\* the window after one more value
Roll(window, x) == Tail_(Append(window, x), RsiWindow)

\* rolling(...).mean() of the last row
Mean(window) == Quot(SumSeq(window), Len(window))

\* delta.where(delta > 0, 0); the first row's delta is NaN and gives 0
Gain(delta) == IF delta # NaN /\ delta > 0 THEN delta ELSE 0

\* -delta.where(delta < 0, 0)
Loss(delta) == IF delta # NaN /\ delta < 0 THEN 0 - delta ELSE 0

\* avg_loss left as it is
KeepZero(a) == a

\* avg_loss.replace(0, np.nan)
ReplaceZeroByNaN(a) == IF a.kind = "num" /\ a.num = 0 THEN NanF ELSE a

\* a / b for a, b >= 0, as IEEE division has it
Divide(a, b) ==
    IF a.kind = "nan" \/ b.kind = "nan" THEN NanF
    ELSE IF b.num = 0 THEN (IF a.num = 0 THEN NanF ELSE InfF)
    ELSE Quot(a.num * b.den, a.den * b.num)

\* 100 - (100 / (1 + rs))
RsiOf(rs) ==
    IF rs.kind = "nan" THEN NanF
    ELSE IF rs.kind = "inf" THEN Quot(100, 1)
    ELSE Quot(100 * (rs.num + rs.den) - 100 * rs.den, rs.num + rs.den)

\* rs = avg_gain / avg_loss.replace(0, np.nan); df['rsi']
Rsi(gains, losses) ==
    RsiOf(Divide(Mean(gains), ReplaceZeroByNaN(Mean(losses))))

InitRsi ==
    /\ x_pc = "rows"
    /\ x_i = 0
    /\ x_gain = <<>>
    /\ x_loss = <<>>
    /\ x_avg_loss = NanF
    /\ x_rsi = NanF

RsiOff ==
    /\ x_pc = "off"
    /\ x_i = 0
    /\ x_gain = <<>>
    /\ x_loss = <<>>
    /\ x_avg_loss = NanF
    /\ x_rsi = NanF

\* the row of delta d
RsiRow(d) ==
    /\ x_gain' = Roll(x_gain, Gain(d))
    /\ x_loss' = Roll(x_loss, Loss(d))
    /\ x_avg_loss' = Mean(x_loss')
    /\ x_rsi' = Rsi(x_gain', x_loss')
    /\ x_i' = x_i + 1
    /\ UNCHANGED x_pc
    /\ UNCHANGED exceptRsi

\* the first row: diff() gives NaN
RsiFirstRow ==
    /\ x_pc = "rows"
    /\ x_i = 0
    /\ RsiRow(NaN)

\* a later row
RsiNextRow ==
    /\ x_pc = "rows"
    /\ x_i >= 1
    /\ x_i < RsiRows
    /\ \E d \in Deltas : RsiRow(d)

NextRsi ==
    \/ RsiFirstRow
    \/ RsiNextRow

----------------------------------------------------------------------------
(* SpecPages: one attempt of a page loop against a remote that may serve
   anything: every response declares some page count and carries a table of
   which any number of rows survive dropna.  The loop of market_monitor is
   PageStep; the loop of download_index_data is DownloaderStep. *)

\* largest page count a response declares
PgMaxPages == 3
\* most valid rows on a page
PgPerPage == 2
\* dates the rows carry
PgDates == 2

\* df_page after dropna
PgTables == SeqsUpTo({Row(d) : d \in 1..PgDates}, PgPerPage)

\* latest_local_date: None or a date
PgWatermarks == {None, 1}

\* the loop going on by two pages
SkipPage(p) == p + 2

\* page_index += 1
NextPageIndex(p) == p + 1

\* the body of the downloader's loop after a well-formed response
DownloaderStep(p, acc, df_page, total_pages) ==
    IF df_page = <<>>
    THEN [acc |-> acc, stop |-> "empty_page"]
    ELSE [acc |-> acc \o df_page,
          stop |-> IF p >= total_pages THEN "all_pages" ELSE ""]

InitPages ==
    /\ pg_pc = "loop"
    /\ pg_loop \in {"monitor", "downloader"}
    /\ pg_W \in IF pg_loop = "monitor" THEN PgWatermarks ELSE {None}
    /\ pg_page_index = 1
    /\ pg_acc = <<>>
    /\ pg_has_new = FALSE
    /\ pg_log = <<>>
    /\ pg_rows = <<>>
    /\ pg_total = <<>>
    /\ pg_stop = ""

PagesOff ==
    /\ pg_pc = "off"
    /\ pg_loop = "monitor"
    /\ pg_W = None
    /\ pg_page_index = 0
    /\ pg_acc = <<>>
    /\ pg_has_new = FALSE
    /\ pg_log = <<>>
    /\ pg_rows = <<>>
    /\ pg_total = <<>>
    /\ pg_stop = ""

\* what every request records
PgRequested(df_page, total_pages) ==
    /\ pg_log' = Append(pg_log, pg_page_index)
    /\ pg_rows' = Append(pg_rows, Len(df_page))
    /\ pg_total' = Append(pg_total, total_pages)

\* the loop goes on to the next page, or breaks
PgAdvance(stop) ==
    IF stop = ""
    THEN /\ pg_page_index' = NextPageIndex(pg_page_index)
         /\ UNCHANGED <<pg_pc, pg_stop>>
    ELSE /\ pg_stop' = stop
         /\ pg_pc' = "returned"
         /\ UNCHANGED pg_page_index

\* market_monitor: a well-formed response
PgMonitorPage ==
    /\ pg_pc = "loop"
    /\ pg_loop = "monitor"
    /\ \E df_page \in PgTables, total_pages \in 0..PgMaxPages :
        LET st == PageStep(pg_W, pg_page_index, pg_acc, pg_has_new, df_page,
                           total_pages)
        IN  /\ PgRequested(df_page, total_pages)
            /\ pg_acc' = st.acc
            /\ pg_has_new' = st.has_new
            /\ PgAdvance(st.stop)
    /\ UNCHANGED <<pg_loop, pg_W>>
    /\ UNCHANGED exceptPages

\* download_index_data: a well-formed response
PgDownloaderPage ==
    /\ pg_pc = "loop"
    /\ pg_loop = "downloader"
    /\ \E df_page \in PgTables, total_pages \in 0..PgMaxPages :
        LET st == DownloaderStep(pg_page_index, pg_acc, df_page, total_pages)
        IN  /\ PgRequested(df_page, total_pages)
            /\ pg_acc' = st.acc
            /\ PgAdvance(st.stop)
    /\ UNCHANGED <<pg_loop, pg_W, pg_has_new>>
    /\ UNCHANGED exceptPages

\* a response without content:"..." or pages:N: break
PgBadFormat ==
    /\ pg_pc = "loop"
    /\ pg_log' = Append(pg_log, pg_page_index)
    /\ pg_rows' = Append(pg_rows, 0)
    /\ pg_total' = Append(pg_total, 0)
    /\ pg_stop' = "bad_format"
    /\ pg_pc' = "returned"
    /\ UNCHANGED <<pg_loop, pg_W, pg_page_index, pg_acc, pg_has_new>>
    /\ UNCHANGED exceptPages

\* the request or the parsing raises: the attempt ends
PgRaises ==
    /\ pg_pc = "loop"
    /\ pg_log' = Append(pg_log, pg_page_index)
    /\ pg_rows' = Append(pg_rows, 0)
    /\ pg_total' = Append(pg_total, 0)
    /\ pg_stop' = "exception"
    /\ pg_pc' = "raised"
    /\ UNCHANGED <<pg_loop, pg_W, pg_page_index, pg_acc, pg_has_new>>
    /\ UNCHANGED exceptPages

NextPages ==
    \/ PgMonitorPage
    \/ PgDownloaderPage
    \/ PgBadFormat
    \/ PgRaises

----------------------------------------------------------------------------
(* Specifications *)

vars == <<fetchVars, mergeVars, signalVars, batchVars, backtestVars,
          rankVars, rsiVars, pagesVars>>

Init == InitFetch /\ MergeOff /\ SignalOff /\ BatchOff /\ BacktestOff
        /\ PagesOff
        /\ RsiOff
        /\ RankOff

Next == NextFetch

Spec == Init /\ [][Next]_vars

InitMergeSpec ==
    FetchOff /\ InitMerge /\ SignalOff /\ BatchOff /\ BacktestOff /\ RankOff
        /\ PagesOff
        /\ RsiOff

SpecMerge == InitMergeSpec /\ [][NextMerge]_vars

InitSignalSpec ==
    FetchOff /\ MergeOff /\ InitSignal /\ BatchOff /\ BacktestOff /\ RankOff
        /\ PagesOff
        /\ RsiOff

SpecSignal == InitSignalSpec /\ [][NextSignal]_vars

InitBatchSpec ==
    FetchOff /\ MergeOff /\ SignalOff /\ InitBatch /\ BacktestOff /\ RankOff
        /\ PagesOff
        /\ RsiOff

SpecBatch == InitBatchSpec /\ [][NextBatch]_vars

InitBacktestSpec ==
    FetchOff /\ MergeOff /\ SignalOff /\ BatchOff /\ InitBacktest /\ RankOff
        /\ PagesOff
        /\ RsiOff

SpecBacktest == InitBacktestSpec /\ [][NextBacktest]_vars

InitRankSpec ==
    FetchOff /\ MergeOff /\ SignalOff /\ BatchOff /\ BacktestOff /\ InitRank
        /\ PagesOff
        /\ RsiOff

SpecRank == InitRankSpec /\ [][NextRank]_vars

InitRsiSpec ==
    FetchOff /\ MergeOff /\ SignalOff /\ BatchOff /\ BacktestOff /\ InitRsi
        /\ PagesOff
        /\ RankOff

SpecRsi == InitRsiSpec /\ [][NextRsi]_vars

InitPagesSpec ==
    FetchOff /\ MergeOff /\ SignalOff /\ BatchOff /\ BacktestOff /\ InitPages
        /\ RsiOff /\ RankOff

\* a running attempt keeps going: each request returns or times out
SpecPages == InitPagesSpec /\ [][NextPages]_vars /\ WF_vars(NextPages)

----------------------------------------------------------------------------
(* Claims checked under Spec *)

\* the rows of a history dated strictly after W
RowsAfter(history, W) ==
    {history[i] : i \in {j \in 1..Len(history) : history[j].date > W}}

RowSet(df) == {df[i] : i \in 1..Len(df)}

\* the fetch returned through the page loop without meeting a response that
\* lacks its content or pages field
ReturnedWellFormed == stop_reason \notin {"", "bad_format"}

\* C1: a fetch with watermark W = the latest local date over a well-formed
\* newest-first remote returns exactly the remote rows dated strictly after
\* W, each once, however many pages they span.
C1_IncrementalExact ==
    (ReturnedWellFormed /\ latest_local_date # None)
        => /\ RowSet(new_df) = RowsAfter(remote, latest_local_date)
           /\ Len(new_df) = Cardinality(RowsAfter(remote, latest_local_date))

\* the newer rows fill two whole pages and the third page has none
C1_Witness ==
    /\ stop_reason = "all_new_collected"
    /\ latest_local_date # None
    /\ Len(new_df) = 2 * PerPage
    /\ req_log = <<1, 2, 3>>

\* hard checks of the validator: the minimum row count (fields and parsed
\* values are present in every frame of this model)
C2_PassesValidation(df) == Len(df) >= MinDataPoints

\* C2: a series is written to local storage only if it passes validation.
C2_ValidatedBeforeWrite ==
    writes > 0 => C2_PassesValidation(local_file)

\* the signal recorded for the instrument in this run
ReportedSignal ==
    fund_data \cup {index_data[i] : i \in 1..Len(index_data)}

\* C3: when the fetch of a fund still fails on the last attempt of the retry
\* budget and a local series exists, the signal recorded for the run is the
\* one computed from the local series.
C3_FallbackToLocal ==
    (/\ pc = "done"
     /\ kind = "fund"
     /\ stop_reason = ""
     /\ attempt_number = MaxAttempts
     /\ local_df # <<>>)
        => ReportedSignal
             = {GetLatestSignals(Code(kind), Tail_(local_df, TailRows))}

\* C5: a response whose content or pages field is missing never ends the
\* fetch with a normal return.
C5_MalformedAborts ==
    ~(pc = "fetched" /\ stop_reason = "bad_format")

\* the first remote page has no row newer than the latest local date
NoOpCase ==
    /\ latest_local_date # None
    /\ \A i \in 1..Len(remote) :
         i <= PerPage => remote[i].date <= latest_local_date

\* C9: when the first page holds no row newer than the watermark, no page
\* other than page 1 is requested, the fetch returns no rows and the local
\* file is not written.
C9_NoOpSync ==
    NoOpCase
        => /\ \A i \in 1..Len(req_log) : req_log[i] = 1
           /\ writes = 0
           /\ local_file = local_df
           /\ pc \in {"fetched", "returned", "done"} => new_df = <<>>

C9_Witness ==
    /\ NoOpCase
    /\ pc = "done"
    /\ stop_reason = "no_new_first_page"
    /\ req_log = <<1>>
    /\ writes = 0
    /\ ReportedSignal # {}

----------------------------------------------------------------------------
(* Claims checked under SpecMerge *)

NoDuplicateDates(df) ==
    \A i, j \in 1..Len(df) : df[i].date = df[j].date => i = j

\* the value a frame holds for date d in its last row of that date
LastValue(df, d) ==
    df[MaxOf({i \in 1..Len(df) : df[i].date = d})].net_value

\* C6: for a date present both in the local series and in the fetched rows,
\* the merged series holds the fetched value (the last fetched one).
C6_KeepNew ==
    m_pc = "merged"
        => \A d \in Dates(m_local) \cap Dates(m_new) :
             \A i \in 1..Len(m_out) :
               m_out[i].date = d => m_out[i].net_value = LastValue(m_new, d)

\* a date held locally with one value and fetched with another
C6_Witness ==
    /\ m_pc = "merged"
    /\ \E d \in Dates(m_local) \cap Dates(m_new) :
         /\ LastValue(m_local, d) # LastValue(m_new, d)
         /\ \E i \in 1..Len(m_out) :
              m_out[i].date = d /\ m_out[i].net_value = LastValue(m_new, d)

\* C7: the series written to the file and the series handed to the
\* indicator engine after a merge (and the series the downloader writes)
\* hold each date at most once, whatever the inputs repeated.
C7_DateUniqueness ==
    m_pc \in {"merged", "remerged", "combined"}
        => /\ NoDuplicateDates(m_saved)
           /\ NoDuplicateDates(m_handed)
           /\ Dates(m_saved) = (IF m_pc = "combined" THEN {} ELSE Dates(m_local))
                                 \cup Dates(m_new)

\* both inputs repeat a date and share a date
C7_Witness ==
    /\ m_pc = "merged"
    /\ ~NoDuplicateDates(m_local)
    /\ ~NoDuplicateDates(m_new)
    /\ Dates(m_local) \cap Dates(m_new) # {}
    /\ m_saved # <<>>
    /\ m_handed = m_saved

\* C8: merging a series (one row per date, as read from the file) with
\* itself gives back the same series, and merging the result with itself
\* again changes nothing.
C8_MergeIdempotent ==
    /\ (m_pc = "merged" /\ m_new = m_local /\ NoDuplicateDates(m_local))
          => m_out = m_local
    /\ m_pc = "remerged" => (m_new = m_local /\ m_out = m_local)

C8_Witness ==
    /\ m_pc = "remerged"
    /\ m_new = m_local
    /\ Len(m_local) >= 2
    /\ m_out = m_local

----------------------------------------------------------------------------
(* Claims checked under SpecSignal *)

\* C10: a snapshot whose ma_ratio is defined and below 0.95 is classified
\* strong_sell whatever its RSI, MACD difference and Bollinger bands are.
C10_Rule1First ==
    (s_pc = "classified" /\ s_snap.ma_ratio # NaN /\ s_snap.ma_ratio < 95)
        => s_out.action_signal = "strong_sell"

\* ma_ratio below 0.95 together with values that match the weak_sell rule
C10_Witness ==
    /\ s_pc = "classified"
    /\ s_snap.ma_ratio = 92
    /\ s_snap.rsi = 75
    /\ s_snap.net_value > s_snap.bb_upper
    /\ s_snap.bb_upper # NaN
    /\ s_out.action_signal = "strong_sell"

----------------------------------------------------------------------------
(* Claims checked under SpecBatch *)

\* C4: the failure of one instrument (a fund or the index) never aborts
\* get_fund_data, and the result of every fund whose worker succeeded is in
\* the result map once its future has been collected.
C4_FailureIsolated ==
    /\ b_pc # "aborted"
    /\ \A c \in b_collected :
         b_future[c] = "result"
            => (c \in DOMAIN b_fund_data /\ b_fund_data[c] = "signals")

----------------------------------------------------------------------------
(* Further claims checked under SpecSignal *)

\* a snapshot exists: the frame had the rows _calculate_indicators needs
Classified == s_pc = "classified" /\ s_rows >= MinDataPoints

\* C11: the snapshot RSI = 20, ma_ratio = 0.85, macd_diff = +0.01 is
\* classified strong_buy.
C11_ExampleStrongBuy ==
    (/\ Classified
     /\ s_snap.rsi = 20
     /\ s_snap.ma_ratio = 85
     /\ s_snap.macd_diff = 1)
        => s_out.action_signal = "strong_buy"

\* a threshold comparison that a missing value never satisfies
Above(x, t) == x # NaN /\ x > t
Below(x, t) == x # NaN /\ x < t

\* the six action rules of the specification, in order, as
\* <<condition, action>> pairs
ActionRules(v) ==
    << <<Below(v.ma_ratio, 95), "strong_sell">>,
       <<Above(v.rsi, 70) /\ Above(v.ma_ratio, 120) /\ Below(v.macd_diff, 0),
         "strong_sell">>,
       <<Above(v.rsi, 65) \/ (v.bb_upper # NaN /\ v.net_value > v.bb_upper)
            \/ Above(v.ma_ratio, 120), "weak_sell">>,
       <<Below(v.rsi, 35) /\ Below(v.ma_ratio, 90) /\ Above(v.macd_diff, 0),
         "strong_buy">>,
       <<Below(v.rsi, 45) \/ (v.bb_lower # NaN /\ v.net_value < v.bb_lower)
            \/ Below(v.ma_ratio, 100), "weak_buy">>,
       <<TRUE, "hold">> >>

\* the five advice rules of the specification, in order
AdviceRules(v) ==
    << <<Above(v.rsi, 70) \/ (v.bb_upper # NaN /\ v.net_value > v.bb_upper)
            \/ Above(v.ma_ratio, 120), "wait_for_pullback">>,
       <<Below(v.rsi, 30) \/ (v.bb_lower # NaN /\ v.net_value < v.bb_lower)
            \/ Below(v.ma_ratio, 80), "accumulate">>,
       <<Above(v.ma_ratio, 100) /\ Above(v.macd_diff, 0), "accumulate">>,
       <<Below(v.ma_ratio, 100) /\ Below(v.macd_diff, 0),
         "wait_for_pullback">>,
       <<TRUE, "observe">> >>

\* the outcome of the first rule whose condition holds
FirstMatch(rules) ==
    rules[CHOOSE i \in 1..Len(rules) :
            rules[i][1] /\ \A j \in 1..(i - 1) : ~rules[j][1]][2]

\* C12: the action of every snapshot is the outcome of the six action rules
\* taken first-match-wins.
C12_ActionFirstMatch ==
    Classified => s_out.action_signal = FirstMatch(ActionRules(s_snap))

\* a snapshot matching the weak_sell and the weak_buy rule and no earlier one
C12_Witness ==
    /\ Classified
    /\ ~ActionRules(s_snap)[1][1]
    /\ ~ActionRules(s_snap)[2][1]
    /\ ActionRules(s_snap)[3][1]
    /\ ActionRules(s_snap)[5][1]
    /\ s_out.action_signal = "weak_sell"

\* C13: the advice of every snapshot is the outcome of the five advice rules
\* taken first-match-wins.
C13_AdviceFirstMatch ==
    Classified => s_out.advice = FirstMatch(AdviceRules(s_snap))

\* RSI > 70 (rule 1) together with ma_ratio < 0.8 (rule 2)
C13_Witness ==
    /\ Classified
    /\ s_snap.rsi = 75
    /\ s_snap.ma_ratio = 75
    /\ s_out.advice = "wait_for_pullback"

AllMissing(v) ==
    /\ v.rsi = NaN
    /\ v.ma_ratio = NaN
    /\ v.macd_diff = NaN
    /\ v.bb_upper = NaN
    /\ v.bb_lower = NaN

\* C14: a missing value matches no rule: a snapshot with every indicator
\* missing is observe / hold, and a rule outcome is only returned when some
\* defined indicator of that rule satisfies its threshold.
C14_MissingNeverMatches ==
    Classified
        => /\ AllMissing(s_snap)
               => (s_out.advice = "observe" /\ s_out.action_signal = "hold")
           /\ s_snap.ma_ratio = NaN
               => s_out.action_signal \notin {"strong_sell", "strong_buy"}
           /\ (s_snap.rsi = NaN /\ s_snap.ma_ratio = NaN
                 /\ s_snap.bb_upper = NaN /\ s_snap.bb_lower = NaN)
               => (s_out.advice = "observe" /\ s_out.action_signal = "hold")
           /\ (s_snap.ma_ratio = NaN /\ s_snap.bb_lower = NaN
                 /\ s_snap.rsi # NaN /\ s_snap.rsi >= 45)
               => s_out.action_signal \notin {"weak_buy", "strong_buy"}

C14_Witness ==
    /\ Classified
    /\ AllMissing(s_snap)
    /\ s_out.advice = "observe"
    /\ s_out.action_signal = "hold"

\* C15: a frame of fewer than 26 rows gives no indicator result, and the
\* returned dict has action N/A and advice observe.
C15_InsufficientData ==
    (s_pc = "classified" /\ s_rows < MinDataPoints)
        => /\ s_snap = NoSnapshot
           /\ s_out.action_signal = "N/A"
           /\ s_out.advice = "observe"

C15_Witness ==
    /\ s_pc = "classified"
    /\ s_rows = 10
    /\ s_out.action_signal = "N/A"
    /\ s_out.advice = "observe"

----------------------------------------------------------------------------
(* Claims checked under SpecBacktest *)

\* the entries of trades: the dicts appended when a position was opened
Opened(trades) == {k \in 1..Len(trades) : trades[k].buy_price # NoField}

\* the row the loop has just read
Today == bt_row'

\* one iteration of the trading loop
DayStep == bt_pc = "loop" /\ bt_pc' = "loop" /\ bt_i' = bt_i + 1

\* C16: total_trades is the number of closed trades, every opened position
\* being counted once.
C16_TradeConservation ==
    bt_pc = "done" => bt_total_trades = Cardinality(Opened(bt_trades))

\* C17: on a day that finds the position long with net value below 0.90 of
\* the entry value, the position is closed as a stop_loss trade at that
\* day's value, no entry or exit signal acts, and the day ends flat.
C17_StopLoss ==
    [][(/\ DayStep
        /\ bt_position = 1
        /\ Today.net_value * 100 < 90 * bt_buy_price)
          => /\ bt_position' = 0
             /\ Len(bt_trades') = Len(bt_trades) + 1
             /\ SubSeq(bt_trades', 1, Len(bt_trades)) = bt_trades
             /\ bt_trades'[Len(bt_trades')].type = "stop_loss"
             /\ bt_trades'[Len(bt_trades')].sell_date = Today.date
             /\ bt_trades'[Len(bt_trades')].return
                  = ((Today.net_value - bt_buy_price) * 1000) \div bt_buy_price
       ]_vars

\* a stop-loss on a day whose own signal is a buy signal: the day ends flat
C17_Witness ==
    /\ bt_pc = "loop"
    /\ bt_position = 0
    /\ bt_trades # <<>>
    /\ bt_trades[Len(bt_trades)].type = "stop_loss"
    /\ bt_trades[Len(bt_trades)].sell_date = bt_row.date
    /\ bt_row.rsi = 40
    /\ bt_row.ma_ratio = 97

\* C18: a position still long after the last row is closed at the last
\* row's value, so at the end every opened position has an exit value and a
\* return.
C18_AllClosedAtEnd ==
    bt_pc = "done"
        => \A k \in Opened(bt_trades) :
              /\ bt_trades[k].sell_price # NoField
              /\ bt_trades[k].return # NoField

\* MACD bullish crossover between two consecutive rows
Crossover(prev, cur) == prev.macd_diff <= 0 /\ cur.macd_diff > 0

\* C19: the backtest goes from flat to long only on a MACD bullish crossover
\* combined with RSI or ma_ratio below its buy threshold.
C19_EntryOnCrossover ==
    [][(DayStep /\ bt_position = 0 /\ bt_position' = 1)
          => /\ Crossover(bt_row, Today)
             /\ (Today.rsi < 45 \/ Today.ma_ratio < 100)
       ]_vars

\* C19 as the code has it: the backtest goes from flat to long only on a day
\* whose action ladder gives a buy signal (no sell rule matches and RSI < 45,
\* net value under the lower band or ma_ratio < 1); a MACD crossover is not
\* needed.
C19_EntryOnBuySignal ==
    [][(DayStep /\ bt_position = 0 /\ bt_position' = 1)
          => /\ Today.ma_ratio >= 95
             /\ ~(Today.rsi > 65 \/ Today.net_value > Today.bb_upper
                    \/ Today.ma_ratio > 120)
             /\ \/ Today.rsi < 45
                \/ Today.net_value < Today.bb_lower
                \/ Today.ma_ratio < 100
       ]_vars

\* an entry on a day with MACD below its signal line
C19_Witness ==
    /\ bt_pc = "loop"
    /\ bt_position = 1
    /\ bt_trades[Len(bt_trades)].buy_date = bt_row.date
    /\ bt_row.macd_diff < 0

----------------------------------------------------------------------------
(* Further claims checked under SpecBatch *)

\* C20: after the batch every requested fund has an entry in fund_data, a
\* fund that failed or has no data being stored as unavailable, not left out.
C20_EveryFundHasEntry ==
    b_pc = "completed" => DOMAIN b_fund_data = FundCodes

----------------------------------------------------------------------------
(* Claims checked under SpecRank *)

Ranked == r_pc = "ranked"

\* the codes of fund_data whose dict carries a buy signal
BuyCodes ==
    {c \in 1..Len(r_fund_data) :
        r_fund_data[c].action_signal \in {"strong_buy", "weak_buy"}}

OutCodes == {r_out[k].code : k \in 1..Len(r_out)}

\* C21: the ranker returns at most max_positions candidates, each of a fund
\* whose action is strong_buy or weak_buy; no other fund is selected.
C21_TopNBuyOnly ==
    Ranked
        => /\ Len(r_out) <= r_max_positions
           /\ OutCodes \subseteq BuyCodes
           /\ \A k \in 1..Len(r_out) :
                 r_out[k].signal \in {"strong_buy", "weak_buy"}

\* more buy candidates than max_positions, next to an unavailable fund
C21_Witness ==
    /\ Ranked
    /\ Cardinality(BuyCodes) > r_max_positions
    /\ Len(r_out) = r_max_positions
    /\ \E c \in 1..Len(r_fund_data) : r_fund_data[c].action_signal = "N/A"

\* strong_buy before weak_buy
ActionPriority(signal) == IF signal = "strong_buy" THEN 0 ELSE 1

\* a is ranked before b by (action priority, score descending, RSI ascending)
Before(a, b) ==
    \/ ActionPriority(a.signal) < ActionPriority(b.signal)
    \/ /\ ActionPriority(a.signal) = ActionPriority(b.signal)
       /\ \/ a.score > b.score
          \/ (a.score = b.score /\ a.rsi <= b.rsi)

\* C22: the returned candidates are ordered by action priority, then score
\* descending, then RSI ascending, and the cut is taken in that order.
C22_OrderedByPriorityScoreRsi ==
    Ranked
        => \A i, j \in 1..Len(r_out) : i < j => Before(r_out[i], r_out[j])

\* C22 as the code has it: the returned candidates are ordered by score
\* descending alone, candidates of equal score keeping their order in
\* fund_data, and the cut is taken in that order.
C22_OrderedByScore ==
    Ranked
        => /\ \A i, j \in 1..Len(r_out) :
                i < j => \/ r_out[i].score > r_out[j].score
                         \/ /\ r_out[i].score = r_out[j].score
                            /\ r_out[i].code < r_out[j].code
           /\ Len(r_out) = Min2(r_max_positions, Cardinality(BuyCodes))
           /\ \A c \in BuyCodes \ OutCodes : \A k \in 1..Len(r_out) :
                 \/ r_out[k].score > CalculateBuyScore(r_fund_data[c])
                 \/ /\ r_out[k].score = CalculateBuyScore(r_fund_data[c])
                    /\ r_out[k].code < c

\* two candidates of equal score returned with the higher RSI first
C22_Witness ==
    /\ Ranked
    /\ Len(r_out) >= 2
    /\ r_out[1].score = r_out[2].score
    /\ r_out[1].rsi > r_out[2].rsi

----------------------------------------------------------------------------
(* Claims checked under SpecRsi *)

\* the sum of the losses inside the window of the last row
WindowLoss == SumSeq(x_loss)

\* C23: the RSI of a row is defined exactly when the average loss over its
\* window is non-zero, and then lies between 0 and 100; with an average loss
\* of zero it is missing, neither 100 nor infinite.
C23_RsiBounds ==
    x_i >= 1
        => /\ (x_rsi.kind = "num") <=> (WindowLoss # 0)
           /\ x_rsi.kind = "num"
                => (0 <= x_rsi.num /\ x_rsi.num <= 100 * x_rsi.den)
           /\ WindowLoss = 0 => x_rsi.kind = "nan"

\* a window that has slid past its last loss: only gains are left in it
C23_Witness ==
    /\ x_i > RsiWindow
    /\ WindowLoss = 0
    /\ SumSeq(x_gain) > 0
    /\ x_rsi.kind = "nan"

----------------------------------------------------------------------------
(* Further claims checked under Spec *)

\* C24: every remote fetch, of a fund and of the index, is attempted at most
\* 5 times: a network or content failure leaves the fetch only on the 5th
\* attempt, the earlier ones being followed by another attempt.
C24_FiveAttempts ==
    /\ attempt_number <= MaxAttempts
    /\ (pc = "raised" /\ raised_exc \in {"RequestException", "ValueError"})
          => attempt_number = MaxAttempts

\* the pages an attempt has requested so far are 1, 2, ... in order
FromPageOne(log) == \A k \in 1..Len(log) : log[k] = k

\* every row of df was served on one of the pages of log
FromPages(df, log) ==
    \A i \in 1..Len(df) : \E k \in 1..Len(log) :
        \E n \in 1..Len(PageOf(remote, log[k])) :
            PageOf(remote, log[k])[n] = df[i]

\* C29: an attempt that follows a failed one starts at page 1 with an empty
\* accumulator, and the rows a fetch returns come only from the pages read
\* in its last attempt, each once.
C29_RetryStartsOver ==
    /\ (pc = "fetch" /\ req_log = <<>>)
          => (page_index = 1 /\ all_new_data = <<>> /\ ~has_new_data)
    /\ pc = "fetch"
          => /\ FromPageOne(req_log)
             /\ page_index = Len(req_log) + 1
             /\ FromPages(all_new_data, req_log)
             /\ \A i, j \in 1..Len(all_new_data) :
                   all_new_data[i].date = all_new_data[j].date => i = j
    /\ pc = "fetched"
          => /\ FromPageOne(req_log)
             /\ FromPages(new_df, req_log)
             /\ \A i, j \in 1..Len(new_df) :
                   new_df[i].date = new_df[j].date => i = j

\* a fetch that returns rows after an attempt that had collected rows failed
C29_Witness ==
    /\ pc = "fetched"
    /\ abandoned
    /\ attempt_number >= 2
    /\ new_df # <<>>
    /\ Len(req_log) >= 2

\* the dates a file holds
StoredDates(file) == {file[i].date : i \in 1..Len(file)}

\* the latest of a set of dates, 0 for none
Watermark(S) == IF S = {} THEN 0 ELSE CHOOSE x \in S : \A y \in S : y <= x

----------------------------------------------------------------------------
(* Claims checked under SpecPages *)

\* C25: in full-history mode pagination stops as soon as a page yields no
\* valid rows or the declared page count is reached: no page is requested
\* after an empty page, nor after the page whose number reaches the count.
C25_StopsOnEmptyPage ==
    pg_W = None
        => \A k \in 1..(Len(pg_log) - 1) :
              /\ pg_rows[k] > 0
              /\ pg_log[k] < pg_total[k]

\* C28: an attempt requests pages 1, 2, 3, ... in order, none skipped or
\* repeated, page p > 1 only after a response that declared at least p
\* pages, and it ends, in incremental and in full-history mode.
C28_PagesInOrder ==
    /\ [](/\ \A k \in 1..Len(pg_log) : pg_log[k] = k
          /\ \A k \in 2..Len(pg_log) : pg_total[k - 1] >= pg_log[k])
    /\ <>(pg_pc \in {"returned", "raised"})

\* an incremental attempt that went through every page declared
C28_Witness ==
    /\ pg_pc = "returned"
    /\ pg_W # None
    /\ pg_loop = "monitor"
    /\ pg_log = <<1, 2, 3>>
    /\ pg_stop = "all_pages"

----------------------------------------------------------------------------
(* Further claims checked under SpecBacktest *)

\* the closed trades, and the dicts appended on entry, each in order
ClosedTrades ==
    AtIndices(bt_trades,
              {k \in 1..Len(bt_trades) : bt_trades[k].return # NoField})

EntryTrades == AtIndices(bt_trades, Opened(bt_trades))

\* C26: every closed trade records as entry date and entry value the date
\* and value of the day its position was opened, whichever way it closed.
C26_EntryRecorded ==
    bt_pc = "done"
        => /\ Len(ClosedTrades) = Len(EntryTrades)
           /\ \A k \in 1..Len(ClosedTrades) :
                 /\ ClosedTrades[k].buy_date = EntryTrades[k].buy_date
                 /\ ClosedTrades[k].buy_price = EntryTrades[k].buy_price

----------------------------------------------------------------------------
(* Further claims checked under SpecBatch, the pool *)

\* a future that has run
Ran(state) == state \in {"result", "returned_none", "exception"}

\* C27: in every interleaving and completion order each fund is run by one
\* worker once, its key of fund_data and its file are written at most once,
\* and a fund loaded from the fresh local cache is never submitted.
C27_OneWriterPerKey ==
    /\ [](\A c \in DOMAIN b_saves :
            /\ b_saves[c] <= 1
            /\ ~(c \in DOMAIN b_fund_data /\ b_future[c] = "pending")
            /\ b_local[c] = "fresh"
                  => /\ b_future[c] = "unsubmitted"
                     /\ c \notin b_to_fetch
                     /\ b_saves[c] = 0)
    /\ [][\A c \in DOMAIN b_future :
            /\ Ran(b_future[c]) => b_future'[c] = b_future[c]
            /\ c \in DOMAIN b_fund_data
                  => /\ c \in DOMAIN b_fund_data'
                     /\ b_fund_data'[c] = b_fund_data[c]]_vars

\* one fund loaded from the cache, the other fetched, saved and collected
C27_Witness ==
    /\ b_pc = "completed"
    /\ \E c, d \in FundCodes :
          /\ b_local[c] = "fresh"
          /\ b_local[d] # "fresh"
          /\ b_saves[d] = 1
          /\ DOMAIN b_fund_data = {c, d}

----------------------------------------------------------------------------
(* The position of the backtest, checked under SpecBacktest *)

\* the last dict of trades is an entry still without its sale
LastIsOpen ==
    /\ bt_trades # <<>>
    /\ bt_trades[Len(bt_trades)].buy_price # NoField
    /\ bt_trades[Len(bt_trades)].return = NoField

\* number of sales recorded so far
SalesOf(trades) ==
    Cardinality({k \in 1..Len(trades) : trades[k].return # NoField})

\* C31: during the replay the position is flat or long, flat at the start;
\* an entry happens only when flat and a signal exit or stop-loss only when
\* long, so entries and exits alternate; while long, buy_price is the net
\* value of the entry day and the last dict of trades is the open one.
C31_FlatLongAlternation ==
    /\ [](bt_pc \in {"start", "loop"}
            => /\ bt_position \in {0, 1}
               /\ bt_pc = "start" => bt_position = 0
               /\ bt_position = 1
                    => /\ LastIsOpen
                       /\ bt_trades[Len(bt_trades)].buy_price = bt_buy_price
               /\ bt_position = 0 => ~LastIsOpen
               /\ Cardinality(Opened(bt_trades))
                    = SalesOf(bt_trades) + bt_position)
    /\ [][DayStep
            => /\ Cardinality(Opened(bt_trades')) > Cardinality(Opened(bt_trades))
                    => /\ bt_position = 0 /\ bt_position' = 1
                       /\ bt_buy_price' = Today.net_value
                       /\ bt_trades'[Len(bt_trades')].buy_date = Today.date
               /\ SalesOf(bt_trades') > SalesOf(bt_trades)
                    => bt_position = 1 /\ bt_position' = 0
               /\ (bt_position = 1 /\ bt_position' = 1)
                    => (bt_buy_price' = bt_buy_price /\ bt_trades' = bt_trades)
       ]_vars

\* long again after an entry and its exit
C31_Witness ==
    /\ bt_pc = "loop"
    /\ bt_position = 1
    /\ Cardinality(Opened(bt_trades)) = 2
    /\ SalesOf(bt_trades) = 1
    /\ LastIsOpen

----------------------------------------------------------------------------
(* The unreachable strong_buy, checked under SpecSignal *)

\* the condition of the strong_buy rule (lines 375-378)
StrongBuyRule(v) ==
    Below(v.rsi, 35) /\ Below(v.ma_ratio, 90) /\ Above(v.macd_diff, 0)

\* C32: the action ladder never returns strong_buy: every snapshot that
\* satisfies the strong_buy rule (RSI < 35, ma_ratio < 0.9, macd_diff > 0)
\* also satisfies the earlier rule ma_ratio < 0.95 and is classified
\* strong_sell, so the only buy signal the classifier hands to the backtest
\* and to the ranker is weak_buy.
C32_NeverStrongBuy ==
    s_pc = "classified"
        => /\ s_out.action_signal # "strong_buy"
           /\ s_out.action_signal
                \in {"strong_sell", "weak_sell", "weak_buy", "hold", "N/A"}
           /\ (Classified /\ StrongBuyRule(s_snap))
                => /\ Below(s_snap.ma_ratio, 95)
                   /\ s_out.action_signal = "strong_sell"

\* a snapshot meeting the strong_buy rule, classified strong_sell
C32_Witness ==
    /\ Classified
    /\ StrongBuyRule(s_snap)
    /\ s_snap.net_value <= s_snap.bb_upper
    /\ s_out.action_signal = "strong_sell"

\* C32, its consequence under SpecBacktest: no day on which the replay
\* opens a position meets the strong_buy rule.
C32_EntriesNotStrongBuy ==
    [][(DayStep /\ Cardinality(Opened(bt_trades')) > Cardinality(Opened(bt_trades)))
         => ~StrongBuyRule(Today)]_vars

\* C32, its consequence under SpecRank: every ranked candidate is a weak_buy.
C32_CandidatesAreWeakBuy ==
    /\ \A c \in 1..Len(r_fund_data) :
          r_fund_data[c].action_signal # "strong_buy"
    /\ Ranked => \A k \in 1..Len(r_out) : r_out[k].signal = "weak_buy"

====
